---- MODULE Spec2Model ----
(***************************************************************************)
(* hear-me: engine abstraction, engine registry and renderer.              *)
(*                                                                         *)
(* Engines (mock, dia2, kokoro, piper) are records holding the fields the  *)
(* Python classes hold; the registry is the three class-level tables of    *)
(* EngineRegistry; render_audio is a process whose position is pc.         *)
(*                                                                         *)
(* Text is modelled by its length: a string is [str, core, pad] where core *)
(* is the number of characters strip() keeps and pad the number it removes.*)
(* Audio bytes are a sequence of WAV containers [rate, frames]; a frame is *)
(* the tagged turn it was synthesized from.  voice_map is always None.     *)
(***************************************************************************)
EXTENDS Integers, Sequences, FiniteSets, TLC

\* ------------------------------------------------------------------ bounds
MaxLen == 3             \* longest input script (records)
MaxCharsPerChunk == 3   \* config.audio.max_chars_per_chunk of the modelled run
MaxCalls == 2           \* get() calls per caller in SpecGet
MaxClears == 1          \* clear() calls in SpecRegistry
MaxRegistered == 2      \* names registered after a clear() in SpecRegistry
MaxServerLen == 1       \* longest script given to the render tool in SpecServer

\* --------------------------------------------------------- program constants
MaxScriptChars == 100000
DefaultSampleRate == 24000
MockRate == 24000
KokoroRate == 24000
PiperRate == 22050
PrioMock == 100
PrioDia2 == 10
PrioKokoro == 30
PrioPiper == 50

EngineNames == {"mock", "dia2", "kokoro", "piper"}
NoEngine == "none"

\* ------------------------------------------------------------------- text
Str(core, pad) == [str |-> TRUE, core |-> core, pad |-> pad]
NotAString == [str |-> FALSE, core |-> 0, pad |-> 0]
Strip(t) == [t EXCEPT !.pad = 0]
StrLen(t) == t.core + t.pad
IsBlank(t) == t.core = 0

\* The records a script is drawn from: a record that is no dict, a dict whose
\* text is no string, a dict with blank text, and one turn for each speaker.
Speakers == {"narrator", "peer"}
Items ==
    {[dict |-> FALSE, speaker |-> "narrator", text |-> Str(0, 0)],
     [dict |-> TRUE, speaker |-> "narrator", text |-> NotAString],
     [dict |-> TRUE, speaker |-> "narrator", text |-> Str(0, 1)],
     [dict |-> TRUE, speaker |-> "narrator", text |-> Str(1, 0)],
     [dict |-> TRUE, speaker |-> "peer", text |-> Str(2, 1)],
     [dict |-> TRUE, speaker |-> "peer", text |-> Str(MaxScriptChars + 1, 0)],
     [dict |-> TRUE, speaker |-> "narrator", text |-> Str(MaxScriptChars - 1, 0)]}
Scripts == UNION {[1..n -> Items] : n \in 0..MaxLen}

RECURSIVE SumLen(_)
SumLen(segs) ==
    IF segs = << >> THEN 0 ELSE StrLen(Head(segs).text) + SumLen(Tail(segs))

\* ------------------------------------------------------------ environment
\* What is installed on the machine: fixed for the life of the process.
\* dia2_rate is the sample rate the installed Dia2 model produces.
Envs ==
    {[dia2_lib |-> TRUE,  dia2_repo |-> FALSE, kokoro |-> TRUE,  piper |-> TRUE,
      dia2_rate |-> 44100],
     [dia2_lib |-> FALSE, dia2_repo |-> TRUE,  kokoro |-> FALSE, piper |-> FALSE,
      dia2_rate |-> 24000],
     [dia2_lib |-> FALSE, dia2_repo |-> FALSE, kokoro |-> FALSE, piper |-> FALSE,
      dia2_rate |-> 24000]}

\* --------------------------------------------------------------- engines
NewEngine(name, serial) ==
    [name |-> name, serial |-> serial, loaded |-> FALSE, available |-> "unknown",
     model |-> FALSE, gen_config |-> FALSE, use_cli |-> FALSE, repo_dir |-> FALSE,
     pipeline |-> FALSE, voice |-> FALSE]

Installed(name, e) ==
    CASE name = "mock" -> TRUE
      [] name = "dia2" -> e.dia2_lib \/ e.dia2_repo
      [] name = "kokoro" -> e.kokoro
      [] OTHER -> e.piper

\* is_available(): the value and the instance with the probe memoized.
IsAvailable(st, e) ==
    IF st.name = "mock" THEN [st |-> st, value |-> TRUE]
    ELSE IF st.available # "unknown" THEN [st |-> st, value |-> st.available = "yes"]
    ELSE [st |-> [st EXCEPT !.available = IF Installed(st.name, e) THEN "yes" ELSE "no"],
          value |-> Installed(st.name, e)]

is_loaded(st) == st.loaded

Ok(st) == [st |-> st, raised |-> FALSE, exc |-> ""]
Raise(st, exc) == [st |-> st, raised |-> TRUE, exc |-> exc]

LoadFaults == {"none", "import_names", "from_repo", "gen_config", "voice_load"}

BaseLoad(st) == Ok([st EXCEPT !.loaded = TRUE])

Dia2Load(st, e, f) ==
    LET av == IsAvailable(st, e) IN
    IF st.loaded THEN Ok(st)
    ELSE IF ~av.value THEN Raise(av.st, "Dia2 engine not installed or repo not found.")
    ELSE IF ~e.dia2_lib \/ f = "import_names" THEN
        LET cli == [av.st EXCEPT !.use_cli = TRUE, !.repo_dir = e.dia2_repo] IN
        IF ~e.dia2_repo THEN Raise(cli, "Dia2 repo not found for uv runtime.")
        ELSE Ok([cli EXCEPT !.loaded = TRUE])
    ELSE
        LET lib == [av.st EXCEPT !.use_cli = FALSE] IN
        IF f = "from_repo" THEN Raise(lib, "from_repo failed")
        ELSE IF f = "gen_config" THEN Raise([lib EXCEPT !.model = TRUE], "GenerationConfig failed")
        ELSE Ok([lib EXCEPT !.model = TRUE, !.gen_config = TRUE, !.loaded = TRUE])

PiperLoad(st, e, f) ==
    LET av == IsAvailable(st, e) IN
    IF st.loaded THEN Ok(st)
    ELSE IF ~av.value THEN Raise(av.st, "Piper not installed. Run: pip install piper-tts")
    ELSE IF f = "voice_load" THEN Raise(av.st, "PiperVoice.load failed")
    ELSE Ok([av.st EXCEPT !.voice = TRUE, !.loaded = TRUE])

Load(st, e, f) ==
    CASE st.name = "dia2" -> Dia2Load(st, e, f)
      [] st.name = "piper" -> PiperLoad(st, e, f)
      [] OTHER -> BaseLoad(st)

UnloadFaults == {"none", "close", "empty_cache"}

BaseUnload(st) == Ok([st EXCEPT !.loaded = FALSE])

Dia2Unload(st, f) ==
    IF st.model THEN
        IF f = "close" THEN Raise(st, "close failed")
        ELSE
            LET freed == [st EXCEPT !.model = FALSE, !.gen_config = FALSE,
                                    !.repo_dir = FALSE, !.use_cli = FALSE] IN
            IF f = "empty_cache" THEN Raise(freed, "empty_cache failed")
            ELSE Ok([freed EXCEPT !.loaded = FALSE])
    ELSE Ok([st EXCEPT !.loaded = FALSE])

PiperUnload(st) == Ok([st EXCEPT !.voice = FALSE, !.loaded = FALSE])

Unload(st, f) ==
    CASE st.name = "dia2" -> Dia2Unload(st, f)
      [] st.name = "piper" -> PiperUnload(st)
      [] OTHER -> BaseUnload(st)

\* -------------------------------------------------------------- synthesis
\* A WAV container and the bytes of one WAV file.
Wav(rate, frames) == <<[rate |-> rate, frames |-> frames]>>
Frame(tag, text) == [tag |-> tag, text |-> text]

Success(audio, rate, segments) ==
    [success |-> TRUE, audio_data |-> audio, sample_rate |-> rate,
     segments |-> segments, error |-> ""]
Failure(error) ==
    [success |-> FALSE, audio_data |-> << >>, sample_rate |-> DefaultSampleRate,
     segments |-> << >>, error |-> error]

Returned(st, result) == [st |-> st, raised |-> FALSE, exc |-> "", result |-> result]
Raised(st, exc) == [st |-> st, raised |-> TRUE, exc |-> exc, result |-> Failure(exc)]

SynthFaults == {"none", "generate", "cli_run", "cli_no_output",
                "pipeline_init", "pipeline_call", "no_audio", "stream"}

\* Dia2Engine._generate(script): script is the sequence of tagged turns.
Dia2Generate(st, e, script, f) ==
    IF st.use_cli THEN
        IF ~(st.repo_dir \/ e.dia2_repo) THEN Failure("Dia2 repo not configured")
        ELSE IF f = "cli_run" THEN Failure("uv run failed")
        ELSE IF f = "cli_no_output" THEN Failure("Dia2 CLI did not create output")
        ELSE Success(Wav(e.dia2_rate, script), e.dia2_rate, << >>)
    ELSE IF ~st.model THEN Failure("'NoneType' object has no attribute 'generate'")
    ELSE IF f = "generate" THEN Failure("generate failed")
    ELSE Success(Wav(e.dia2_rate, script), e.dia2_rate, << >>)

Min(a, b) == IF a < b THEN a ELSE b

Dia2Marker_always_S1(speaker_count) == "S1"

Dia2Marker_unclamped(speaker_count) == "S" \o ToString(speaker_count)

\* f"S{min(speaker_count, 2)}"
Dia2Marker(speaker_count) == "S" \o ToString(Min(speaker_count, 2))

\* The loop of Dia2Engine.synthesize_multi from segment i on: the tagged turns,
\* given the mapping and the count built so far.
RECURSIVE Dia2Parts(_, _, _, _)
Dia2Parts(segments, i, speaker_mapping, speaker_count) ==
    IF i > Len(segments) THEN << >>
    ELSE
        LET speaker == segments[i].speaker
            text == Strip(segments[i].text)
        IN  IF IsBlank(text) THEN Dia2Parts(segments, i + 1, speaker_mapping, speaker_count)
            ELSE IF speaker \in DOMAIN speaker_mapping THEN
                <<Frame(speaker_mapping[speaker], text)>>
                    \o Dia2Parts(segments, i + 1, speaker_mapping, speaker_count)
            ELSE
                <<Frame(Dia2Marker(speaker_count + 1), text)>>
                    \o Dia2Parts(segments, i + 1,
                                 [x \in DOMAIN speaker_mapping \cup {speaker} |->
                                     IF x = speaker THEN Dia2Marker(speaker_count + 1)
                                     ELSE speaker_mapping[x]],
                                 speaker_count + 1)

\* speaker_mapping = {} and speaker_count = 0 at the start of every call.
Dia2Script(segments) == Dia2Parts(segments, 1, [k \in {} |-> 0], 0)

Dia2SynthesizeMulti(st, e, segments, lf, f) ==
    LET ld == IF st.loaded THEN Ok(st) ELSE Dia2Load(st, e, lf) IN
    IF ld.raised THEN Raised(ld.st, ld.exc)
    ELSE IF segments = << >> THEN Returned(ld.st, Failure("No segments provided"))
    ELSE Returned(ld.st, Dia2Generate(ld.st, e, Dia2Script(segments), f))

\* synthesize(text, voice=None) of each variant.
MockSynthesize(st, text) ==
    Returned(st, Success(Wav(MockRate, <<Frame("default", text)>>), MockRate, << >>))

KokoroSynthesize(st, e, text, f) ==
    IF ~st.pipeline /\ (~e.kokoro \/ f = "pipeline_init")
    THEN Returned(st, Failure("Kokoro engine not available"))
    ELSE
        LET ready == [st EXCEPT !.pipeline = TRUE] IN
        IF f = "pipeline_call" THEN Returned(ready, Failure("pipeline failed"))
        ELSE IF f = "no_audio" THEN Returned(ready, Failure("Kokoro produced no audio"))
        ELSE Returned(ready, Success(Wav(KokoroRate, <<Frame("af_heart", text)>>),
                                     KokoroRate, << >>))

PiperSynthesize(st, e, text, lf, f) ==
    LET ld == IF st.loaded THEN Ok(st) ELSE PiperLoad(st, e, lf) IN
    IF ld.raised THEN Raised(ld.st, ld.exc)
    ELSE IF f = "stream" \/ ~ld.st.voice THEN Returned(ld.st, Failure("synthesize_stream_raw failed"))
    ELSE Returned(ld.st, Success(Wav(PiperRate, <<Frame("en_US-amy-medium", text)>>),
                                 PiperRate, << >>))

Dia2Synthesize(st, e, text, lf, f) ==
    LET ld == IF st.loaded THEN Ok(st) ELSE Dia2Load(st, e, lf) IN
    IF ld.raised THEN Raised(ld.st, ld.exc)
    ELSE Returned(ld.st, Dia2Generate(ld.st, e, <<Frame("S1", text)>>, f))

Synthesize(st, e, text, lf, f) ==
    CASE st.name = "mock" -> MockSynthesize(st, text)
      [] st.name = "kokoro" -> KokoroSynthesize(st, e, text, f)
      [] st.name = "piper" -> PiperSynthesize(st, e, text, lf, f)
      [] OTHER -> Dia2Synthesize(st, e, text, lf, f)

SynthesisSegment(speaker, text, audio, rate) ==
    [speaker |-> speaker, text |-> text, audio_data |-> audio, sample_rate |-> rate]

\* The loop of BaseEngine.synthesize_multi from segment i on; segment failAt
\* meets fault f.  all_audio and result_segments are the lists built so far.
RECURSIVE BaseMultiFrom_skip_failed(_, _, _, _, _, _, _, _, _)
BaseMultiFrom_skip_failed(st, e, segments, i, failAt, lf, f, all_audio, result_segments) ==
    IF i > Len(segments)
    THEN Returned(st, Success(all_audio, DefaultSampleRate, result_segments))
    ELSE
        LET speaker == segments[i].speaker
            text == segments[i].text
            r == Synthesize(st, e, text, lf, IF i = failAt THEN f ELSE "none")
        IN  IF IsBlank(Strip(text)) \/ (~r.raised /\ ~r.result.success)
            THEN BaseMultiFrom_skip_failed(st, e, segments, i + 1, failAt, lf, f,
                                           all_audio, result_segments)
            ELSE IF r.raised THEN r
            ELSE BaseMultiFrom_skip_failed(r.st, e, segments, i + 1, failAt, lf, f,
                                           all_audio \o r.result.audio_data,
                                           Append(result_segments,
                                                  SynthesisSegment(speaker, text,
                                                                   r.result.audio_data,
                                                                   r.result.sample_rate)))

RECURSIVE BaseMultiFrom(_, _, _, _, _, _, _, _, _)
BaseMultiFrom(st, e, segments, i, failAt, lf, f, all_audio, result_segments) ==
    IF i > Len(segments)
    THEN Returned(st, Success(all_audio, DefaultSampleRate, result_segments))
    ELSE
        LET speaker == segments[i].speaker
            text == segments[i].text
        IN  IF IsBlank(Strip(text))
            THEN BaseMultiFrom(st, e, segments, i + 1, failAt, lf, f, all_audio, result_segments)
            ELSE
                LET r == Synthesize(st, e, text, lf, IF i = failAt THEN f ELSE "none") IN
                IF r.raised THEN r
                ELSE IF ~r.result.success THEN
                    Returned(r.st, Failure("Failed to synthesize segment for " \o speaker
                                           \o ": " \o r.result.error))
                ELSE BaseMultiFrom(r.st, e, segments, i + 1, failAt, lf, f,
                                   all_audio \o r.result.audio_data,
                                   Append(result_segments,
                                          SynthesisSegment(speaker, text, r.result.audio_data,
                                                           r.result.sample_rate)))

BaseSynthesizeMulti(st, e, segments, failAt, lf, f) ==
    IF segments = << >> THEN Returned(st, Failure("No segments provided"))
    ELSE BaseMultiFrom(st, e, segments, 1, failAt, lf, f, << >>, << >>)

SynthesizeMulti(st, e, segments, failAt, lf, f) ==
    IF st.name = "dia2" THEN Dia2SynthesizeMulti(st, e, segments, lf, f)
    ELSE BaseSynthesizeMulti(st, e, segments, failAt, lf, f)

\* -------------------------------------------------------------- registry
\* A dict: a function whose DOMAIN is the set of keys.
EmptyMap == [k \in {} |-> 0]
MapPut(m, k, v) == [x \in DOMAIN m \cup {k} |-> IF x = k THEN v ELSE m[x]]

Classes == {"MockEngine", "Dia2Engine", "KokoroEngine", "PiperEngine",
            "EngineMock", "BrokenEngine"}

\* engine_class.__name__.lower().replace("engine", "")
NameOf(cls) ==
    CASE cls = "MockEngine" -> "mock"
      [] cls = "Dia2Engine" -> "dia2"
      [] cls = "KokoroEngine" -> "kokoro"
      [] cls = "PiperEngine" -> "piper"
      [] cls = "EngineMock" -> "mock"
      [] OTHER -> "broken"

\* The constructor of BrokenEngine raises; the others cannot.
CtorRaises(cls) == cls = "BrokenEngine"

InSeq(x, seq) == \E i \in 1..Len(seq) : seq[i] = x

\* list.sort(key=...): a stable insertion sort; key maps each element to its key.
RECURSIVE InsertByKey(_, _, _)
InsertByKey(x, sorted, key) ==
    IF sorted = << >> THEN <<x>>
    ELSE IF key[x] < key[Head(sorted)] THEN <<x>> \o sorted
    ELSE <<Head(sorted)>> \o InsertByKey(x, Tail(sorted), key)

RECURSIVE SortByKey(_, _)
SortByKey(seq, key) ==
    IF seq = << >> THEN << >>
    ELSE InsertByKey(seq[Len(seq)], SortByKey(SubSeq(seq, 1, Len(seq) - 1), key), key)

\* The key of register's sort, lambda n: priority: the priority being
\* registered, whatever the element.
RegisterKey(order, priority) == [n \in {order[i] : i \in 1..Len(order)} |-> priority]

\* EngineRegistry.register on the registry R = [engines, instances, fallback_order].
Register(R, cls, priority) ==
    LET name == NameOf(cls) IN
    [R EXCEPT !.engines = MapPut(R.engines, name, cls),
              !.fallback_order =
                  IF InSeq(name, R.fallback_order) THEN R.fallback_order
                  ELSE LET appended == Append(R.fallback_order, name) IN
                       SortByKey(appended, RegisterKey(appended, priority))]

EmptyRegistry == [engines |-> EmptyMap, instances |-> EmptyMap, fallback_order |-> << >>]

\* register_default_engines: the engine modules import nothing optional at
\* module level, so the three optional registrations always happen.
register_default_engines(R) ==
    Register(Register(Register(Register(R, "MockEngine", PrioMock),
                               "Dia2Engine", PrioDia2),
                      "KokoroEngine", PrioKokoro),
             "PiperEngine", PrioPiper)

Get_caches_failed(R, made, name) ==
    IF name \in DOMAIN R.instances THEN [reg |-> R, made |-> made, found |-> TRUE]
    ELSE IF name \in DOMAIN R.engines THEN
        [reg |-> [R EXCEPT !.instances =
                     MapPut(R.instances, name,
                            NewEngine(NameOf(R.engines[name]), made[name] + 1))],
         made |-> [made EXCEPT ![name] = @ + 1],
         found |-> ~CtorRaises(R.engines[name])]
    ELSE [reg |-> R, made |-> made, found |-> FALSE]

\* EngineRegistry.get, run without interruption; made[name] counts the
\* instances of name constructed so far and numbers the new one.
Get(R, made, name) ==
    IF name \in DOMAIN R.instances THEN [reg |-> R, made |-> made, found |-> TRUE]
    ELSE IF name \in DOMAIN R.engines /\ ~CtorRaises(R.engines[name]) THEN
        [reg |-> [R EXCEPT !.instances =
                     MapPut(R.instances, name,
                            NewEngine(NameOf(R.engines[name]), made[name] + 1))],
         made |-> [made EXCEPT ![name] = @ + 1],
         found |-> TRUE]
    ELSE [reg |-> R, made |-> made, found |-> FALSE]

RECURSIVE BestFrom_no_probe(_, _, _, _)
BestFrom_no_probe(R, made, e, i) ==
    IF i > Len(R.fallback_order) THEN [reg |-> R, made |-> made, found |-> FALSE, name |-> NoEngine]
    ELSE
        LET name == R.fallback_order[i]
            g == Get(R, made, name)
        IN  IF ~g.found THEN BestFrom_no_probe(g.reg, g.made, e, i + 1)
            ELSE [reg |-> g.reg, made |-> g.made, found |-> TRUE, name |-> name]

\* EngineRegistry.get_best_available from position i of the fallback order:
\* every engine walked is constructed and probed.
RECURSIVE BestFrom(_, _, _, _)
BestFrom(R, made, e, i) ==
    IF i > Len(R.fallback_order) THEN [reg |-> R, made |-> made, found |-> FALSE, name |-> NoEngine]
    ELSE
        LET name == R.fallback_order[i]
            g == Get(R, made, name)
        IN  IF ~g.found THEN BestFrom(g.reg, g.made, e, i + 1)
            ELSE
                LET av == IsAvailable(g.reg.instances[name], e)
                    R2 == [g.reg EXCEPT !.instances[name] = av.st]
                IN  IF av.value
                    THEN [reg |-> R2, made |-> g.made, found |-> TRUE, name |-> name]
                    ELSE BestFrom(R2, g.made, e, i + 1)

get_best_available(R, made, e) == BestFrom(R, made, e, 1)

\* get_engine(name): by name, or the best available when name is None.
get_engine(R, made, e, name) ==
    IF name # NoEngine
    THEN LET g == Get(R, made, name) IN
         [reg |-> g.reg, made |-> g.made, found |-> g.found, name |-> name]
    ELSE get_best_available(R, made, e)

\* -------------------------------------------------------------- renderer
ScriptSegment(speaker, text) == [speaker |-> speaker, text |-> text]

\* parse_script from record i on; text.strip() raises on a text that is not a string.
RECURSIVE ParseFrom_keeps_blank(_, _, _)
ParseFrom_keeps_blank(script, i, segments) ==
    IF i > Len(script) THEN [raised |-> FALSE, segments |-> segments]
    ELSE
        LET item == script[i] IN
        IF ~item.dict THEN ParseFrom_keeps_blank(script, i + 1, segments)
        ELSE IF ~item.text.str THEN [raised |-> TRUE, segments |-> segments]
        ELSE ParseFrom_keeps_blank(script, i + 1,
                       Append(segments, ScriptSegment(item.speaker, Strip(item.text))))

RECURSIVE ParseFrom(_, _, _)
ParseFrom(script, i, segments) ==
    IF i > Len(script) THEN [raised |-> FALSE, segments |-> segments]
    ELSE
        LET item == script[i] IN
        IF ~item.dict THEN ParseFrom(script, i + 1, segments)
        ELSE IF ~item.text.str THEN [raised |-> TRUE, segments |-> segments]
        ELSE IF IsBlank(Strip(item.text)) THEN ParseFrom(script, i + 1, segments)
        ELSE ParseFrom(script, i + 1,
                       Append(segments, ScriptSegment(item.speaker, Strip(item.text))))

parse_script(script) == ParseFrom(script, 1, << >>)

validate_script_accepts_all(segments) == [valid |-> TRUE, error |-> ""]

validate_script_rejects_boundary(segments) ==
    IF segments = << >> THEN [valid |-> FALSE, error |-> "Script is empty"]
    ELSE IF SumLen(segments) >= MaxScriptChars
         THEN [valid |-> FALSE, error |-> "Script too long"]
         ELSE [valid |-> TRUE, error |-> ""]

validate_script(segments) ==
    IF segments = << >> THEN [valid |-> FALSE, error |-> "Script is empty"]
    ELSE IF SumLen(segments) > MaxScriptChars
         THEN [valid |-> FALSE, error |-> "Script too long"]
         ELSE [valid |-> TRUE, error |-> ""]

\* The frames concatenate_wav reads: a segment without audio is skipped, the
\* others give the frames of their container.
RECURSIVE AllFrames(_)
AllFrames(segments) ==
    IF segments = << >> THEN << >>
    ELSE IF Head(segments).audio_data = << >> THEN AllFrames(Tail(segments))
    ELSE <<Head(Head(segments).audio_data).frames>> \o AllFrames(Tail(segments))

RECURSIVE Join(_)
Join(seqs) == IF seqs = << >> THEN << >> ELSE Head(seqs) \o Join(Tail(seqs))

\* Mutant: all_frames is overwritten, not appended to, so only the last
\* segment's frames are written.
concatenate_wav_last_only(segments, sample_rate) ==
    IF segments = << >> THEN << >>
    ELSE IF AllFrames(segments) = << >> THEN << >>
    ELSE Wav(sample_rate, AllFrames(segments)[Len(AllFrames(segments))])

concatenate_wav(segments, sample_rate) ==
    IF segments = << >> THEN << >>
    ELSE IF AllFrames(segments) = << >> THEN << >>
    ELSE Wav(sample_rate, Join(AllFrames(segments)))

RECURSIVE ChunkFrom_no_flush(_, _, _, _, _, _)
ChunkFrom_no_flush(segments, max, i, chunks, current, current_chars) ==
    IF i > Len(segments)
    THEN IF current # << >> THEN Append(chunks, current) ELSE chunks
    ELSE
        LET seg == segments[i]
            seg_len == StrLen(seg.text)
        IN  IF current # << >> /\ current_chars + seg_len > max
            THEN ChunkFrom_no_flush(segments, max, i + 1, chunks, <<seg>>, seg_len)
            ELSE ChunkFrom_no_flush(segments, max, i + 1, chunks, Append(current, seg),
                                    current_chars + seg_len)

\* The loop of _chunk_segments from segment i on.
RECURSIVE ChunkFrom(_, _, _, _, _, _)
ChunkFrom(segments, max, i, chunks, current, current_chars) ==
    IF i > Len(segments)
    THEN IF current # << >> THEN Append(chunks, current) ELSE chunks
    ELSE
        LET seg == segments[i]
            seg_len == StrLen(seg.text)
        IN  IF current # << >> /\ current_chars + seg_len > max
            THEN ChunkFrom(segments, max, i + 1, Append(chunks, current), <<seg>>, seg_len)
            ELSE ChunkFrom(segments, max, i + 1, chunks, Append(current, seg),
                           current_chars + seg_len)

chunk_segments(segments, max) ==
    IF max <= 0 THEN <<segments>>
    ELSE ChunkFrom(segments, max, 1, << >>, << >>, 0)

\* The calls of synthesize_multi one render makes: the chunks for dia2, the
\* whole script for the other engines.
RenderChunks(name, script_dicts, max) ==
    IF name = "dia2" /\ SumLen(script_dicts) > max
    THEN chunk_segments(script_dicts, max)
    ELSE <<script_dicts>>

RenderResult(success, output_path, segment_count, engine_used, error) ==
    [success |-> success, output_path |-> output_path, segment_count |-> segment_count,
     engine_used |-> engine_used, error |-> error]

NoPath == "none"
NoResult == RenderResult(FALSE, NoPath, 0, NoEngine, "")
NoSynth == Failure("")

\* ------------------------------------------------------------------ state
VARIABLES
    env,             \* what is installed
    max_chars,       \* config.audio.max_chars_per_chunk
    engines,         \* EngineRegistry._engines: name -> class
    instances,       \* EngineRegistry._instances: name -> engine
    fallback_order,  \* EngineRegistry._fallback_order
    made,            \* history: instances constructed so far, by name
    pc,              \* position of render_audio
    script,          \* its argument
    engine_name,     \* its argument; NoEngine for None
    segments,        \* parse_script(script)
    engine,          \* name of the acquired engine
    chunks,          \* the synthesize_multi calls to make
    k,               \* number of calls made
    all_segments,    \* accumulated SynthesisSegments
    sample_rate,
    synth,           \* result: the SynthesisResult in hand
    pending,         \* the RenderResult the try block returned
    outcome,         \* "none", "returned" or "raised"
    result,          \* the RenderResult the caller receives
    written,         \* << >>, or <<bytes>> once the output file is written
    load_attempted,  \* history: engine.load() was called
    unload_raised,   \* history: engine.unload() raised in the finally clause
    calls,           \* history: one record per synthesize_multi call
    last,            \* history: the last direct call on an engine or get(), and its outcome
    prio,            \* history: the priority each name was first registered with
    best,            \* history: what the last get_best_available() returned
    clears,          \* history: number of clear() calls
    gpc,             \* position of each concurrent caller of get()
    gname,           \* its argument
    gobj,            \* the instance it constructed and has not stored yet
    gcalls,          \* history: calls it has completed
    handed,          \* history: the instances get() has returned, as <<name, serial>>
    tool,            \* what the last server tool call returned
    other            \* a second render_audio, on another engine: its position

regVars == <<engines, instances, fallback_order, made>>
cfgVars == <<env, max_chars>>
renVars == <<pc, script, engine_name, segments, engine, chunks, k, all_segments,
             sample_rate, synth, pending, outcome, result, written, load_attempted,
             unload_raised, calls>>
histVars == <<prio, best, clears>>
getVars == <<gpc, gname, gobj, gcalls, handed>>
srvVars == <<tool, other>>
vars == <<cfgVars, regVars, renVars, last, histVars, getVars, srvVars>>

Callers == {1, 2}

Registry == [engines |-> engines, instances |-> instances, fallback_order |-> fallback_order]

AllNames == EngineNames \cup {"broken", "nonexistent"}
Requests == EngineNames \cup {NoEngine, "nonexistent"}

RenIdle ==
    /\ pc = "idle"
    /\ script = << >>
    /\ engine_name = NoEngine
    /\ segments = << >>
    /\ engine = NoEngine
    /\ chunks = << >>
    /\ k = 0
    /\ all_segments = << >>
    /\ sample_rate = DefaultSampleRate
    /\ synth = NoSynth
    /\ pending = NoResult
    /\ outcome = "none"
    /\ result = NoResult
    /\ written = << >>
    /\ load_attempted = FALSE
    /\ unload_raised = FALSE
    /\ calls = << >>

NoCall == [op |-> "none", name |-> NoEngine, raised |-> FALSE,
           before |-> NewEngine(NoEngine, 0), result |-> NoSynth,
           args |-> [text |-> Str(0, 0), segments |-> << >>, failAt |-> 0]]

ToolResult(op, raised, cleaned, status) ==
    [op |-> op, raised |-> raised, cleaned |-> cleaned, status |-> status]
NoTool == ToolResult("none", FALSE, << >>, "")
OtherIdle == [pc |-> "idle", name |-> NoEngine]

\* The process after import: the registry holds the default engines.
Init ==
    /\ env \in Envs
    /\ max_chars = MaxCharsPerChunk
    /\ engines = register_default_engines(EmptyRegistry).engines
    /\ instances = EmptyMap
    /\ fallback_order = register_default_engines(EmptyRegistry).fallback_order
    /\ made = [n \in AllNames |-> 0]
    /\ RenIdle
    /\ last = NoCall
    /\ prio = [n \in {"mock", "dia2", "kokoro", "piper"} |->
                  CASE n = "mock" -> PrioMock [] n = "dia2" -> PrioDia2
                    [] n = "kokoro" -> PrioKokoro [] OTHER -> PrioPiper]
    /\ best = [called |-> FALSE, found |-> FALSE, name |-> NoEngine]
    /\ clears = 0
    /\ gpc = [t \in Callers |-> "idle"]
    /\ gname = [t \in Callers |-> NoEngine]
    /\ gobj = [t \in Callers |-> NewEngine(NoEngine, 0)]
    /\ gcalls = [t \in Callers |-> 0]
    /\ handed = {}
    /\ tool = NoTool
    /\ other = OtherIdle

\* render_audio leaves by returning res or by raising.
Leave(how, res) ==
    /\ pc' = "done"
    /\ outcome' = how
    /\ result' = res

\* render_audio up to the try block: parse, validate, acquire the engine.
RenderStart(s, name) ==
    /\ pc = "idle"
    /\ script' = s
    /\ engine_name' = name
    /\ LET p == parse_script(s)
           v == validate_script(p.segments)
           g == get_engine(Registry, made, env, name)
           av == IsAvailable(g.reg.instances[g.name], env)
       IN  IF p.raised THEN
               /\ Leave("raised", NoResult)
               /\ UNCHANGED <<regVars, segments, engine>>
           ELSE IF ~v.valid THEN
               /\ Leave("returned", RenderResult(FALSE, NoPath, 0, NoEngine, v.error))
               /\ segments' = p.segments
               /\ UNCHANGED <<regVars, engine>>
           ELSE IF ~g.found THEN
               /\ Leave("returned", RenderResult(FALSE, NoPath, 0, NoEngine,
                                                 "No audio engine available"))
               /\ segments' = p.segments
               /\ engines' = g.reg.engines
               /\ instances' = g.reg.instances
               /\ fallback_order' = g.reg.fallback_order
               /\ made' = g.made
               /\ UNCHANGED engine
           ELSE
               /\ segments' = p.segments
               /\ engine' = g.name
               /\ engines' = g.reg.engines
               /\ instances' = [g.reg.instances EXCEPT ![g.name] = av.st]
               /\ fallback_order' = g.reg.fallback_order
               /\ made' = g.made
               /\ IF ~av.value
                  THEN Leave("returned", RenderResult(FALSE, NoPath, 0, NoEngine,
                                         "Engine '" \o g.name \o "' is not available"))
                  ELSE /\ pc' = "load"
                       /\ UNCHANGED <<outcome, result>>
    /\ UNCHANGED <<cfgVars, srvVars, chunks, k, all_segments, sample_rate, synth, pending,
                   written, load_attempted, unload_raised, calls, last, histVars, getVars>>

\* The except clause: any exception becomes a failed RenderResult.
RenderFailed(exc) == RenderResult(FALSE, NoPath, 0, engine, "Render failed: " \o exc)

\* engine.load(), first statement of the try block.
RenderLoad(lf) ==
    /\ pc = "load"
    /\ load_attempted' = TRUE
    /\ LET ld == Load(instances[engine], env, lf) IN
       /\ instances' = [instances EXCEPT ![engine] = ld.st]
       /\ IF ld.raised
          THEN /\ pending' = RenderFailed(ld.exc)
               /\ pc' = "finally"
               /\ UNCHANGED chunks
          ELSE /\ chunks' = RenderChunks(engine, segments, max_chars)
               /\ pc' = "synth"
               /\ UNCHANGED pending
    /\ UNCHANGED <<cfgVars, srvVars, engines, fallback_order, made, script, engine_name, segments,
                   engine, k, all_segments, sample_rate, synth, outcome, result, written,
                   unload_raised, calls, last, histVars, getVars>>

\* What the chunk loop adds to all_segments for one successful chunk.
ChunkSegments(res, rate) ==
    IF res.segments # << >> THEN res.segments
    ELSE IF res.audio_data # << >>
         THEN <<SynthesisSegment("chunk", Str(0, 0), res.audio_data, rate)>>
         ELSE << >>

\* One synthesize_multi call: the next chunk for dia2, the script otherwise.
RenderSynth(failAt, lf, f) ==
    /\ pc = "synth"
    /\ k < Len(chunks)
    /\ LET chunk == chunks[k + 1]
           r == SynthesizeMulti(instances[engine], env, chunk, failAt, lf, f)
           rate == IF r.result.sample_rate # 0 THEN r.result.sample_rate ELSE sample_rate
           acc == all_segments \o ChunkSegments(r.result, rate)
       IN  /\ instances' = [instances EXCEPT ![engine] = r.st]
           /\ k' = k + 1
           /\ calls' = Append(calls, [chunk |-> chunk,
                                      turns |-> IF engine = "dia2" THEN Dia2Script(chunk)
                                                ELSE << >>,
                                      raised |-> r.raised,
                                      success |-> ~r.raised /\ r.result.success,
                                      error |-> r.result.error])
           /\ IF r.raised THEN
                  /\ pending' = RenderFailed(r.exc)
                  /\ pc' = "finally"
                  /\ UNCHANGED <<all_segments, sample_rate, synth>>
              ELSE IF ~r.result.success THEN
                  /\ pending' = RenderResult(FALSE, NoPath, 0, engine, r.result.error)
                  /\ pc' = "finally"
                  /\ synth' = r.result
                  /\ UNCHANGED <<all_segments, sample_rate>>
              ELSE IF engine = "dia2" THEN
                  /\ sample_rate' = rate
                  /\ all_segments' = acc
                  /\ synth' = IF k + 1 = Len(chunks) THEN Success(<< >>, rate, acc)
                              ELSE r.result
                  /\ pc' = IF k + 1 = Len(chunks) THEN "write" ELSE "synth"
                  /\ UNCHANGED pending
              ELSE
                  /\ synth' = r.result
                  /\ pc' = "write"
                  /\ UNCHANGED <<all_segments, sample_rate, pending>>
    /\ UNCHANGED <<cfgVars, srvVars, engines, fallback_order, made, script, engine_name, segments,
                   engine, chunks, outcome, result, written, load_attempted,
                   unload_raised, last, histVars, getVars>>

WriteFaults == {"none", "mkdir", "write"}

\* Concatenate, resolve the output path and write the file.
RenderWrite(wf) ==
    /\ pc = "write"
    /\ LET audio_data == IF synth.segments # << >>
                         THEN concatenate_wav(synth.segments, synth.sample_rate)
                         ELSE synth.audio_data
       IN  IF wf = "write"
           THEN /\ pending' = RenderFailed("write_bytes failed")
                /\ UNCHANGED written
           ELSE /\ written' = <<audio_data>>
                /\ pending' = RenderResult(TRUE,
                                           IF wf = "mkdir" THEN "~/.hear-me/out.wav"
                                           ELSE "/cwd/out.wav",
                                           Len(segments), engine, "")
    /\ pc' = "finally"
    /\ UNCHANGED <<cfgVars, srvVars, regVars, script, engine_name, segments, engine, chunks, k,
                   all_segments, sample_rate, synth, outcome, result, load_attempted,
                   unload_raised, calls, last, histVars, getVars>>

\* The finally clause: unload when loaded; an exception raised here replaces
\* the pending return.
RenderFinally(uf) ==
    /\ pc = "finally"
    /\ LET ul == IF is_loaded(instances[engine]) THEN Unload(instances[engine], uf)
                 ELSE Ok(instances[engine])
       IN  /\ instances' = [instances EXCEPT ![engine] = ul.st]
           /\ unload_raised' = ul.raised
           /\ IF ul.raised THEN Leave("raised", NoResult)
              ELSE Leave("returned", pending)
    /\ UNCHANGED <<cfgVars, srvVars, engines, fallback_order, made, script, engine_name, segments,
                   engine, chunks, k, all_segments, sample_rate, synth, pending, written,
                   load_attempted, calls, last, histVars, getVars>>

Next ==
    \/ \E s \in Scripts, name \in Requests : RenderStart(s, name)
    \/ \E lf \in LoadFaults : RenderLoad(lf)
    \/ \E failAt \in 0..MaxLen, f \in SynthFaults : RenderSynth(failAt, "none", f)
    \/ \E wf \in WriteFaults : RenderWrite(wf)
    \/ \E uf \in UnloadFaults : RenderFinally(uf)

\* One render_audio call in a fresh process.
Spec == Init /\ [][Next]_vars

\* ------------------------------------------------- direct calls on an engine
\* One engine object, taken from the registry, and the calls a caller can
\* make on it outside render_audio (as the tests of the engines do).
NoArgs == [text |-> Str(0, 0), segments |-> << >>, failAt |-> 0]

Call(op, name, raised, before, res) ==
    [op |-> op, name |-> name, raised |-> raised, before |-> before, result |-> res,
     args |-> NoArgs]

EngineUnchanged ==
    UNCHANGED <<cfgVars, srvVars, engines, fallback_order, renVars, histVars, getVars>>

EngGet(name) ==
    /\ instances = EmptyMap
    /\ LET g == Get(Registry, made, name) IN
       /\ g.found
       /\ instances' = g.reg.instances
       /\ made' = g.made
       /\ last' = Call("get", name, FALSE, g.reg.instances[name], NoSynth)
    /\ EngineUnchanged

EngIsAvailable(name) ==
    /\ name \in DOMAIN instances
    /\ LET av == IsAvailable(instances[name], env) IN
       /\ instances' = [instances EXCEPT ![name] = av.st]
       /\ last' = Call(IF av.value THEN "is_available:true" ELSE "is_available:false",
                       name, FALSE, instances[name], NoSynth)
    /\ UNCHANGED made
    /\ EngineUnchanged

EngLoad(name, lf) ==
    /\ name \in DOMAIN instances
    /\ LET r == Load(instances[name], env, lf) IN
       /\ instances' = [instances EXCEPT ![name] = r.st]
       /\ last' = Call("load", name, r.raised, instances[name], NoSynth)
    /\ UNCHANGED made
    /\ EngineUnchanged

EngUnload(name, uf) ==
    /\ name \in DOMAIN instances
    /\ LET r == Unload(instances[name], uf) IN
       /\ instances' = [instances EXCEPT ![name] = r.st]
       /\ last' = Call("unload", name, r.raised, instances[name], NoSynth)
    /\ UNCHANGED made
    /\ EngineUnchanged

\* with engine: body.  __enter__ is load(); __exit__ is unload() and is run
\* whether the body raised or not, but not when __enter__ raised.
EngWith(name, lf, uf, body_raises) ==
    /\ name \in DOMAIN instances
    /\ LET enter == Load(instances[name], env, lf)
           exit == Unload(enter.st, uf)
       IN  IF enter.raised
           THEN /\ instances' = [instances EXCEPT ![name] = enter.st]
                /\ last' = Call("with:enter_raised", name, TRUE, instances[name], NoSynth)
           ELSE /\ instances' = [instances EXCEPT ![name] = exit.st]
                /\ last' = Call(IF body_raises THEN "with:body_raised" ELSE "with:body_ok",
                                name, body_raises \/ exit.raised, instances[name], NoSynth)
    /\ UNCHANGED made
    /\ EngineUnchanged

EngineTexts == {Str(1, 0), Str(2, 1)}
EngineSegments ==
    {<< >>,
     <<ScriptSegment("narrator", Str(0, 1))>>,
     <<ScriptSegment("narrator", Str(1, 0))>>,
     <<ScriptSegment("narrator", Str(1, 0)), ScriptSegment("peer", Str(2, 1))>>,
     <<ScriptSegment("narrator", Str(0, 1)), ScriptSegment("peer", Str(2, 1))>>,
     <<ScriptSegment("peer", Str(2, 1)), ScriptSegment("narrator", Str(1, 0)),
       ScriptSegment("peer", Str(1, 0))>>,
     <<ScriptSegment("narrator", Str(1, 0)), ScriptSegment("peer", Str(2, 1)),
       ScriptSegment("narrator", Str(2, 1)), ScriptSegment("peer", Str(1, 0))>>,
     <<ScriptSegment("narrator", Str(1, 0)), ScriptSegment("peer", Str(2, 1)),
       ScriptSegment("guest", Str(1, 0)), ScriptSegment("host", Str(1, 0))>>}

EngSynthesize(name, text, lf, f) ==
    /\ name \in DOMAIN instances
    /\ LET r == Synthesize(instances[name], env, text, lf, f) IN
       /\ instances' = [instances EXCEPT ![name] = r.st]
       /\ last' = [Call("synthesize", name, r.raised, instances[name], r.result)
                       EXCEPT !.args = [NoArgs EXCEPT !.text = text]]
    /\ UNCHANGED made
    /\ EngineUnchanged

EngSynthesizeMulti(name, segs, failAt, lf, f) ==
    /\ name \in DOMAIN instances
    /\ LET r == SynthesizeMulti(instances[name], env, segs, failAt, lf, f) IN
       /\ instances' = [instances EXCEPT ![name] = r.st]
       /\ last' = [Call("synthesize_multi", name, r.raised, instances[name], r.result)
                       EXCEPT !.args = [NoArgs EXCEPT !.segments = segs, !.failAt = failAt]]
    /\ UNCHANGED made
    /\ EngineUnchanged

NextEngine ==
    \/ \E name \in EngineNames : EngGet(name)
    \/ \E name \in EngineNames : EngIsAvailable(name)
    \/ \E name \in EngineNames, lf \in LoadFaults : EngLoad(name, lf)
    \/ \E name \in EngineNames, uf \in UnloadFaults : EngUnload(name, uf)
    \/ \E name \in EngineNames, lf \in LoadFaults, uf \in UnloadFaults, b \in BOOLEAN :
           EngWith(name, lf, uf, b)
    \/ \E name \in EngineNames, text \in EngineTexts, lf \in LoadFaults, f \in SynthFaults :
           EngSynthesize(name, text, lf, f)
    \/ \E name \in EngineNames, segs \in EngineSegments, failAt \in 0..2,
          lf \in LoadFaults, f \in SynthFaults :
           EngSynthesizeMulti(name, segs, failAt, lf, f)

\* One engine object and any sequence of direct calls on it.
SpecEngine == Init /\ [][NextEngine]_vars

\* ------------------------------------------------- the registry on its own
\* Registration, lookup and clear() in any order, as a test or an embedding
\* program may call them.
Priorities == {PrioDia2, PrioMock}
\* What get() hands back when it returns None.
Absent == NewEngine(NoEngine, 0)

NotBest == [called |-> FALSE, found |-> FALSE, name |-> NoEngine]

RegistryUnchanged == UNCHANGED <<cfgVars, srvVars, renVars, getVars>>

RegRegister(cls, priority) ==
    /\ NameOf(cls) \in DOMAIN engines \/ Len(fallback_order) < MaxRegistered
    /\ LET R == Register(Registry, cls, priority) IN
       /\ engines' = R.engines
       /\ fallback_order' = R.fallback_order
    /\ prio' = MapPut(prio, NameOf(cls), priority)
    /\ best' = NotBest
    /\ last' = NoCall
    /\ UNCHANGED <<instances, made, clears>>
    /\ RegistryUnchanged

RegGet(name) ==
    /\ LET g == Get(Registry, made, name) IN
       /\ instances' = g.reg.instances
       /\ made' = g.made
       /\ last' = Call("get", name, FALSE,
                       IF g.found THEN g.reg.instances[name] ELSE Absent, NoSynth)
    /\ best' = NotBest
    /\ UNCHANGED <<engines, fallback_order, prio, clears>>
    /\ RegistryUnchanged

RegGetBest ==
    /\ LET b == get_best_available(Registry, made, env) IN
       /\ instances' = b.reg.instances
       /\ made' = b.made
       /\ best' = [called |-> TRUE, found |-> b.found, name |-> b.name]
    /\ last' = NoCall
    /\ UNCHANGED <<engines, fallback_order, prio, clears>>
    /\ RegistryUnchanged

RegClear ==
    /\ clears < MaxClears
    /\ engines' = EmptyMap
    /\ instances' = EmptyMap
    /\ fallback_order' = << >>
    /\ prio' = EmptyMap
    /\ best' = NotBest
    /\ clears' = clears + 1
    /\ last' = NoCall
    /\ UNCHANGED made
    /\ RegistryUnchanged

NextRegistry ==
    \/ \E cls \in Classes, priority \in Priorities : RegRegister(cls, priority)
    \/ \E name \in AllNames : RegGet(name)
    \/ RegGetBest
    \/ RegClear

SpecRegistry == Init /\ [][NextRegistry]_vars

\* ------------------------------------------------- get() from two callers
\* EngineRegistry.get takes no lock: between its test of the cache, the
\* construction and the store, another caller's get() may run.
GetNames == {"mock", "kokoro", "nonexistent"}

GetUnchanged ==
    UNCHANGED <<cfgVars, srvVars, engines, fallback_order, renVars, last, histVars>>

GetCall(t, name) ==
    /\ gpc[t] = "idle"
    /\ gcalls[t] < MaxCalls
    /\ gname' = [gname EXCEPT ![t] = name]
    /\ gpc' = [gpc EXCEPT ![t] = "check"]
    /\ UNCHANGED <<instances, made, gobj, gcalls, handed>>
    /\ GetUnchanged

GetCheck(t) ==
    /\ gpc[t] = "check"
    /\ IF gname[t] \in DOMAIN instances
       THEN /\ handed' = handed \cup {<<gname[t], instances[gname[t]].serial>>}
            /\ gpc' = [gpc EXCEPT ![t] = "idle"]
            /\ gcalls' = [gcalls EXCEPT ![t] = @ + 1]
       ELSE IF gname[t] \in DOMAIN engines
       THEN /\ gpc' = [gpc EXCEPT ![t] = "construct"]
            /\ UNCHANGED <<handed, gcalls>>
       ELSE /\ gpc' = [gpc EXCEPT ![t] = "idle"]
            /\ gcalls' = [gcalls EXCEPT ![t] = @ + 1]
            /\ UNCHANGED handed
    /\ UNCHANGED <<instances, made, gname, gobj>>
    /\ GetUnchanged

GetConstruct(t) ==
    /\ gpc[t] = "construct"
    /\ IF CtorRaises(engines[gname[t]])
       THEN /\ gpc' = [gpc EXCEPT ![t] = "idle"]
            /\ gcalls' = [gcalls EXCEPT ![t] = @ + 1]
            /\ UNCHANGED <<gobj, made>>
       ELSE /\ gobj' = [gobj EXCEPT ![t] =
                           NewEngine(NameOf(engines[gname[t]]), made[gname[t]] + 1)]
            /\ made' = [made EXCEPT ![gname[t]] = @ + 1]
            /\ gpc' = [gpc EXCEPT ![t] = "store"]
            /\ UNCHANGED gcalls
    /\ UNCHANGED <<instances, gname, handed>>
    /\ GetUnchanged

GetStore(t) ==
    /\ gpc[t] = "store"
    /\ instances' = MapPut(instances, gname[t], gobj[t])
    /\ handed' = handed \cup {<<gname[t], gobj[t].serial>>}
    /\ gpc' = [gpc EXCEPT ![t] = "idle"]
    /\ gcalls' = [gcalls EXCEPT ![t] = @ + 1]
    /\ UNCHANGED <<made, gname, gobj>>
    /\ GetUnchanged

NextGet ==
    \/ \E t \in Callers, name \in GetNames : GetCall(t, name)
    \/ \E t \in Callers : GetCheck(t)
    \/ \E t \in Callers : GetConstruct(t)
    \/ \E t \in Callers : GetStore(t)

SpecGet == Init /\ [][NextGet]_vars

\* ------------------------------------------------- the server's tools
\* The render_audio, cleanup_resources and resource_status tools of one
\* server process, called one after the other, and a second render_audio on
\* another engine running in another thread of the process.
ServerScripts == UNION {[1..n -> Items] : n \in 0..MaxServerLen}
\* The engines the modelled clients ask for.
ServerEngines == {"dia2", "kokoro"}

\* The orders in which a dict holding the keys S can be iterated: the model
\* does not keep the insertion order of _instances, and only the order of the
\* loaded instances matters to cleanup_resources.
Orders(S) ==
    {o \in [1..Cardinality(S) -> S] : \A i, j \in 1..Cardinality(S) : o[i] = o[j] => i = j}

Loaded(insts) == {n \in DOMAIN insts : is_loaded(insts[n])}

\* The loop of cleanup_resources from position i of the iteration order.
RECURSIVE CleanupFrom(_, _, _, _, _)
CleanupFrom(insts, order, i, uf, cleaned) ==
    IF i > Len(order) THEN [instances |-> insts, raised |-> FALSE, cleaned |-> cleaned]
    ELSE
        LET name == order[i] IN
        IF ~is_loaded(insts[name]) THEN CleanupFrom(insts, order, i + 1, uf, cleaned)
        ELSE
            LET u == Unload(insts[name], uf) IN
            IF u.raised
            THEN [instances |-> [insts EXCEPT ![name] = u.st], raised |-> TRUE,
                  cleaned |-> cleaned]
            ELSE CleanupFrom([insts EXCEPT ![name] = u.st], order, i + 1, uf,
                             Append(cleaned, name))

cleanup_resources(insts, order, uf) == CleanupFrom(insts, order, 1, uf, << >>)

\* capabilities.model_size_mb of each variant.
ModelSizeMb(name) ==
    CASE name = "dia2" -> 2000
      [] name = "kokoro" -> 300
      [] name = "piper" -> 50
      [] OTHER -> 0

\* The loop of resource_status over the registered names (the keys of
\* _engines are the names of the fallback order).
RECURSIVE StatusFrom(_, _, _, _, _)
StatusFrom(R, made_, e, i, status) ==
    IF i > Len(R.fallback_order) THEN [reg |-> R, made |-> made_, status |-> status]
    ELSE
        LET name == R.fallback_order[i]
            g == Get(R, made_, name)
        IN  IF ~g.found THEN StatusFrom(g.reg, g.made, e, i + 1, status)
            ELSE
                LET av == IsAvailable(g.reg.instances[name], e)
                    R2 == [g.reg EXCEPT !.instances[name] = av.st]
                IN  StatusFrom(R2, g.made, e, i + 1,
                               Append(status,
                                      [name |-> name,
                                       loaded |-> is_loaded(g.reg.instances[name]),
                                       available |-> av.value,
                                       memory_mb |-> IF is_loaded(g.reg.instances[name])
                                                     THEN ModelSizeMb(name) ELSE 0]))

\* resource_status: the registry it leaves and the "status" of its report.
resource_status(R, made_, e) ==
    LET r == StatusFrom(R, made_, e, 1, << >>) IN
    [reg |-> r.reg, made |-> r.made,
     status |-> IF \A i \in 1..Len(r.status) : r.status[i].memory_mb = 0 THEN "clean"
                ELSE "models_loaded"]

RenReset ==
    /\ pc' = "idle"
    /\ script' = << >>
    /\ engine_name' = NoEngine
    /\ segments' = << >>
    /\ engine' = NoEngine
    /\ chunks' = << >>
    /\ k' = 0
    /\ all_segments' = << >>
    /\ sample_rate' = DefaultSampleRate
    /\ synth' = NoSynth
    /\ pending' = NoResult
    /\ outcome' = "none"
    /\ result' = NoResult
    /\ written' = << >>
    /\ load_attempted' = FALSE
    /\ unload_raised' = FALSE
    /\ calls' = << >>

\* The render tool calls render_audio with the engine of its argument or of the
\* configuration, never None.
ToolRenderStart(s, name) ==
    /\ name # other.name
    /\ RenderStart(s, name)

\* The render tool after render_audio: an exception goes through the tool; a
\* result is followed by cleanup_resources() when cleanup is set.
ToolRenderEnd(cleanup, order, uf) ==
    /\ pc = "done"
    /\ LET c == cleanup_resources(instances, order, uf) IN
       IF outcome = "raised" \/ ~cleanup
       THEN /\ tool' = ToolResult("render_audio", outcome = "raised", << >>, "")
            /\ UNCHANGED instances
       ELSE /\ tool' = ToolResult("render_audio", c.raised, c.cleaned, "")
            /\ instances' = c.instances
    /\ RenReset
    /\ UNCHANGED <<cfgVars, engines, fallback_order, made, last, histVars, getVars, other>>

ToolCleanup(order, uf) ==
    /\ pc = "idle"
    /\ LET c == cleanup_resources(instances, order, uf) IN
       /\ tool' = ToolResult("cleanup_resources", c.raised, c.cleaned, "")
       /\ instances' = c.instances
    /\ UNCHANGED <<cfgVars, engines, fallback_order, made, renVars, last, histVars,
                   getVars, other>>

ToolStatus ==
    /\ pc = "idle"
    /\ LET r == resource_status(Registry, made, env) IN
       /\ tool' = ToolResult("resource_status", FALSE, << >>, r.status)
       /\ instances' = r.reg.instances
       /\ made' = r.made
    /\ UNCHANGED <<cfgVars, engines, fallback_order, renVars, last, histVars, getVars, other>>

\* The second render_audio, reduced to the calls it makes on its engine: a
\* valid one-segment script, rendered by the engine called name.
OtherSegments == <<ScriptSegment("narrator", Str(1, 0))>>

OtherUnchanged ==
    UNCHANGED <<cfgVars, engines, fallback_order, renVars, last, histVars, getVars, tool>>

OtherStart(name) ==
    /\ other.pc = "idle"
    /\ pc \notin {"idle", "done"}
    /\ name # engine
    /\ LET g == Get(Registry, made, name)
           av == IsAvailable(g.reg.instances[name], env)
       IN  /\ g.found
           /\ instances' = [g.reg.instances EXCEPT ![name] = av.st]
           /\ made' = g.made
           /\ other' = IF av.value THEN [pc |-> "load", name |-> name] ELSE OtherIdle
    /\ OtherUnchanged

OtherLoad(lf) ==
    /\ other.pc = "load"
    /\ LET ld == Load(instances[other.name], env, lf) IN
       /\ instances' = [instances EXCEPT ![other.name] = ld.st]
       /\ other' = [other EXCEPT !.pc = IF ld.raised THEN "finally" ELSE "synth"]
    /\ UNCHANGED made
    /\ OtherUnchanged

OtherSynth(f) ==
    /\ other.pc = "synth"
    /\ LET r == SynthesizeMulti(instances[other.name], env, OtherSegments, 1, "none", f) IN
       /\ instances' = [instances EXCEPT ![other.name] = r.st]
       /\ other' = [other EXCEPT !.pc = "finally"]
    /\ UNCHANGED made
    /\ OtherUnchanged

OtherFinally(uf) ==
    /\ other.pc = "finally"
    /\ LET ul == IF is_loaded(instances[other.name]) THEN Unload(instances[other.name], uf)
                 ELSE Ok(instances[other.name])
       IN  instances' = [instances EXCEPT ![other.name] = ul.st]
    /\ other' = OtherIdle
    /\ UNCHANGED made
    /\ OtherUnchanged

NextServer ==
    \/ \E s \in ServerScripts, name \in ServerEngines : ToolRenderStart(s, name)
    \/ \E lf \in LoadFaults : RenderLoad(lf)
    \/ \E failAt \in 0..MaxServerLen, f \in SynthFaults : RenderSynth(failAt, "none", f)
    \/ \E wf \in WriteFaults : RenderWrite(wf)
    \/ \E uf \in UnloadFaults : RenderFinally(uf)
    \/ \E cleanup \in BOOLEAN, order \in Orders(Loaded(instances)), uf \in UnloadFaults :
           ToolRenderEnd(cleanup, order, uf)
    \/ \E order \in Orders(Loaded(instances)), uf \in UnloadFaults : ToolCleanup(order, uf)
    \/ ToolStatus
    \/ \E name \in ServerEngines : OtherStart(name)
    \/ \E lf \in LoadFaults : OtherLoad(lf)
    \/ \E f \in SynthFaults : OtherSynth(f)
    \/ \E uf \in UnloadFaults : OtherFinally(uf)

SpecServer == Init /\ [][NextServer]_vars

\* ------------------------------------------------------ properties: render_audio
Done == pc = "done"
Returned1 == Done /\ outcome = "returned"

\* C1: once engine.load() has been attempted, the engine is not loaded when
\* render_audio is left, whichever way it is left; and a with-block on an
\* engine whose body raises leaves the engine not loaded.
C1_ReleasedOnEveryExit ==
    /\ (Done /\ load_attempted) => ~is_loaded(instances[engine])
    /\ last.op = "with:body_raised" => ~is_loaded(instances[last.name])

\* C2: when engine.unload() raises in the release step, render_audio still
\* returns the RenderResult the earlier steps produced.
C2_UnloadErrorNotSurfaced ==
    (Done /\ unload_raised) => (outcome = "returned" /\ result = pending)

\* C3: render_audio never raises: it returns a RenderResult, and a failed one
\* carries an error string.
C3_NeverRaises ==
    Done => (outcome = "returned" /\ (~result.success => result.error # ""))

\* C4: in a chunked render, when chunk j fails no later chunk is synthesized,
\* nothing is written, and render_audio returns success=false with chunk j's
\* error and the engine's name.
C4_AbortOnFirstFailedChunk ==
    \A j \in 1..Len(calls) :
        (Done /\ Len(chunks) > 1 /\ ~calls[j].success) =>
            /\ Len(calls) = j
            /\ written = << >>
            /\ outcome = "returned"
            /\ ~result.success
            /\ result.error = calls[j].error
            /\ result.engine_used = engine

\* The input records that carry speech, in input order, with trimmed text.
RECURSIVE SpokenRecords(_)
SpokenRecords(s) ==
    IF s = << >> THEN << >>
    ELSE IF Head(s).dict /\ Head(s).text.str /\ Head(s).text.core > 0
         THEN <<[speaker |-> Head(s).speaker, text |-> Str(Head(s).text.core, 0)]>>
                  \o SpokenRecords(Tail(s))
         ELSE SpokenRecords(Tail(s))

TextsOf(seq) == [i \in 1..Len(seq) |-> seq[i].text]

\* C5: in a render reported as success the synthesize_multi calls were made
\* on consecutive pieces of the script in script order, and the file written
\* holds one container whose frames are those of the spoken records, in input
\* order, each once.
C5_AudioInScriptOrder ==
    (Returned1 /\ result.success) =>
        /\ Join([i \in 1..Len(calls) |-> calls[i].chunk]) = SpokenRecords(script)
        /\ \A i \in 1..Len(calls) : calls[i].success
        /\ Len(written) = 1
        /\ Len(written[1]) = 1
        /\ TextsOf(written[1][1].frames) = TextsOf(SpokenRecords(script))

\* A successful chunked render of two different turns.
C5_Witness ==
    /\ Returned1 /\ result.success
    /\ Len(calls) >= 2
    /\ \E i, j \in 1..Len(written[1][1].frames) :
           written[1][1].frames[i].text # written[1][1].frames[j].text

\* C6: within one render on dia2 a speaker carries the same marker in every
\* chunk in which it appears.
C6_MarkerStableAcrossChunks ==
    engine = "dia2" =>
        \A i, j \in 1..Len(calls) :
            \A n \in 1..Len(calls[i].chunk), m \in 1..Len(calls[j].chunk) :
                calls[i].chunk[n].speaker = calls[j].chunk[m].speaker
                    => calls[i].turns[n].tag = calls[j].turns[m].tag

\* The sample rates the engine reported for the audio of a synthesis result.
ReportedRates(res) ==
    IF res.segments # << >>
    THEN {res.segments[i].sample_rate :
              i \in {j \in 1..Len(res.segments) : res.segments[j].audio_data # << >>}}
    ELSE {res.sample_rate}

\* C26: the sample rate recorded in the written audio container equals the
\* sample rate the synthesizing engine reported for its audio, on the
\* single-buffer path and on the concatenation path.
C26_WrittenRateIsEngineRate ==
    (written # << >> /\ written[1] # << >>) =>
        \A r \in ReportedRates(synth) : written[1][1].rate = r

\* The input records that are mappings with non-blank trimmed text.
SpokenItems(s) ==
    {i \in 1..Len(s) : s[i].dict /\ s[i].text.str /\ ~IsBlank(Strip(s[i].text))}

\* C27: every successful render_audio result has segment_count equal to the
\* number of input records with non-blank trimmed text, whatever the number of
\* chunks and of SynthesisSegments, and engine_used equal to the name of the
\* engine that was loaded.
C27_SuccessMetadata ==
    (Returned1 /\ result.success) =>
        /\ result.segment_count = Cardinality(SpokenItems(script))
        /\ result.engine_used = engine
        /\ load_attempted

\* A successful render in two chunks whose segment count is neither the number
\* of chunks nor the number of SynthesisSegments.
C27_Witness ==
    /\ Returned1 /\ result.success
    /\ Len(chunks) = 2
    /\ result.segment_count = 3
    /\ Len(synth.segments) = 2

\* The summed length of the trimmed texts of the spoken records from i on.
RECURSIVE TotalChars(_, _)
TotalChars(s, i) ==
    IF i > Len(s) THEN 0
    ELSE (IF i \in SpokenItems(s) THEN StrLen(Strip(s[i].text)) ELSE 0) + TotalChars(s, i + 1)

ValidationErrors == {"Script is empty", "Script too long"}

\* C28: validation fails with an emptiness error for zero segments and with a
\* too-long error when the summed text length exceeds 100,000; it succeeds
\* for every non-empty script of summed length at most 100,000; an oversized
\* script is rejected, never truncated.
C28_ValidateScript ==
    (pc # "idle" /\ ~parse_script(script).raised) =>
        /\ SpokenItems(script) = {} =>
               (Done /\ ~result.success /\ result.error = "Script is empty")
        /\ TotalChars(script, 1) > MaxScriptChars =>
               /\ Done /\ ~result.success /\ result.error = "Script too long"
               /\ calls = << >> /\ written = << >>
               /\ SumLen(segments) = TotalChars(script, 1)
        /\ (SpokenItems(script) # {} /\ TotalChars(script, 1) <= MaxScriptChars) =>
               result.error \notin ValidationErrors

\* A script of exactly 100,000 characters was rendered.
C28_Witness ==
    /\ Returned1 /\ result.success
    /\ TotalChars(script, 1) = MaxScriptChars
    /\ written # << >>

\* C29: for a limit > 0, _chunk_segments returns non-empty consecutive chunks
\* whose concatenation is the input list in order, and every chunk has summed
\* text length at most the limit or is a single segment longer than the limit.
C29_ChunksPartitionInput ==
    (engine = "dia2" /\ chunks # << >> /\ max_chars > 0) =>
        /\ \A c \in 1..Len(chunks) : chunks[c] # << >>
        /\ Join(chunks) = segments
        /\ \A c \in 1..Len(chunks) :
               \/ SumLen(chunks[c]) <= max_chars
               \/ Len(chunks[c]) = 1 /\ StrLen(chunks[c][1].text) > max_chars

\* A script chunked in two, one chunk being a single segment over the limit.
C29_Witness ==
    /\ engine = "dia2" /\ Len(chunks) = 2
    /\ SumLen(segments) > max_chars
    /\ \E c \in 1..2 : SumLen(chunks[c]) > max_chars

\* ------------------------------------------------------ properties: the registry
Available(name) ==
    /\ name \in DOMAIN engines
    /\ ~CtorRaises(engines[name])
    /\ Installed(NameOf(engines[name]), env)

\* C7: get_best_available() returns the available registered engine with the
\* smallest priority number: right after the call, no available registered
\* engine has a smaller priority number than the engine returned.
C7_BestIsSmallestPriority ==
    best.called =>
        \A n \in DOMAIN engines :
            Available(n) => (best.found /\ prio[best.name] <= prio[n])

\* C8: under any interleaving of get(name) calls without clear(), every call
\* for a name returns the same instance and at most one instance per name is
\* constructed.
C8_OneInstancePerName ==
    /\ \A a \in handed, b \in handed : a[1] = b[1] => a[2] = b[2]
    /\ \A n \in DOMAIN made : made[n] <= 1

\* The fallback order is in priority order under the priorities pr.
InPriorityOrder(order, pr) ==
    \A i, j \in 1..Len(order) : i < j => pr[order[i]] <= pr[order[j]]

\* C23: register(variant, priority) for an already-registered name, on a
\* fallback order that is in priority order, replaces the class mapped to the
\* name, leaves the fallback order in priority order under the new priority,
\* and keeps the cached instances of the other names.
C23_ReRegisterResorts ==
    [][\A cls \in Classes, priority \in Priorities :
           (/\ RegRegister(cls, priority)
            /\ NameOf(cls) \in DOMAIN engines
            /\ InPriorityOrder(fallback_order, prio)) =>
               /\ engines'[NameOf(cls)] = cls
               /\ InPriorityOrder(fallback_order', prio')
               /\ \A n \in DOMAIN instances \ {NameOf(cls)} :
                      n \in DOMAIN instances' /\ instances'[n] = instances[n]]_vars

\* C24: get_best_available() returns absent exactly when no registered engine
\* is available; otherwise the engine returned is registered and its
\* is_available() is true.
C24_BestIsAvailableOrAbsent ==
    best.called =>
        /\ ~best.found <=> (\A n \in DOMAIN engines : ~Available(n))
        /\ best.found =>
               /\ best.name \in DOMAIN engines
               /\ best.name \in DOMAIN instances
               /\ IsAvailable(instances[best.name], env).value

\* An unavailable engine heads the fallback order and a later one is returned.
C24_Witness ==
    /\ best.called /\ best.found
    /\ best.name # fallback_order[1]
    /\ ~Available(fallback_order[1])

\* C25: get(name) returns absent, without raising and leaving the instance
\* cache unchanged, when name is not registered or the registered variant's
\* constructor raises.
C25_GetAbsent ==
    [][\A name \in AllNames :
           (RegGet(name) /\ (name \notin DOMAIN engines \/ CtorRaises(engines[name]))) =>
               /\ last'.before = Absent
               /\ ~last'.raised
               /\ instances' = instances]_vars

\* get() was called for a registered name whose constructor raises, with other
\* instances already cached.
C25_Witness ==
    /\ last.op = "get" /\ last.name \in DOMAIN engines
    /\ CtorRaises(engines[last.name])
    /\ last.before = Absent
    /\ instances # EmptyMap

\* ------------------------------------------------------ properties: the engines
Usable(st) ==
    CASE st.name = "dia2" -> (st.model /\ st.gen_config) \/ (st.use_cli /\ st.repo_dir)
      [] st.name = "kokoro" -> st.pipeline
      [] st.name = "piper" -> st.voice
      [] OTHER -> TRUE

Holding(st) ==
    CASE st.name = "dia2" -> st.model
      [] st.name = "kokoro" -> st.pipeline
      [] st.name = "piper" -> st.voice
      [] OTHER -> FALSE

\* C9: in every reachable state of every engine instance, is_loaded() is true
\* exactly when the heavyweight resource is resident: loaded implies the
\* resource is present and usable, not loaded implies no model is held.
C9_LoadedIffResident ==
    \A n \in DOMAIN instances :
        /\ is_loaded(instances[n]) => Usable(instances[n])
        /\ ~is_loaded(instances[n]) => ~Holding(instances[n])

\* C10: unload() never raises and is_loaded() is false after it, whatever the
\* release step does.
C10_UnloadNeverRaises ==
    last.op = "unload" => (~last.raised /\ ~is_loaded(instances[last.name]))

\* C11: load() on an instance whose is_available() is false raises and leaves
\* is_loaded() false, for every engine variant.
C11_LoadOnUnavailableRaises ==
    (last.op = "load" /\ ~Installed(last.name, env)) =>
        (last.raised /\ ~is_loaded(instances[last.name]))

\* C12: synthesize() and synthesize_multi() never raise on an available
\* engine: every failure, a failed auto-load included, comes back as a
\* SynthesisResult with success false and an error.
C12_SynthesisNeverRaises ==
    (last.op \in {"synthesize", "synthesize_multi"} /\ Installed(last.name, env)) =>
        /\ ~last.raised
        /\ ~last.result.success => last.result.error # ""

\* C13: every SynthesisResult with success true returned by synthesize or
\* synthesize_multi, for any segment list (a non-empty list of blank texts
\* included), has non-empty audio_data or a non-empty segments list.
C13_SuccessHasAudio ==
    (last.op \in {"synthesize", "synthesize_multi"} /\ ~last.raised /\ last.result.success) =>
        (last.result.audio_data # << >> \/ last.result.segments # << >>)

NonBlank(segs) == SelectSeq(segs, LAMBDA sg : ~IsBlank(Strip(sg.text)))
NonBlankAt(segs) == {i \in 1..Len(segs) : ~IsBlank(Strip(segs[i].text))}
FallbackErrors == {"Kokoro engine not available", "pipeline failed",
                   "Kokoro produced no audio", "synthesize_stream_raw failed"}

\* What C14 asks of a fallback synthesize_multi call that returned res for segs.
FallbackContract(segs, failAt, res) ==
    /\ segs = << >> => ~res.success
    /\ res.success =>
           /\ Len(res.segments) = Len(NonBlank(segs))
           /\ \A i \in 1..Len(res.segments) :
                  /\ res.segments[i].speaker = NonBlank(segs)[i].speaker
                  /\ res.segments[i].text = NonBlank(segs)[i].text
                  /\ res.segments[i].audio_data # << >>
    /\ (~res.success /\ segs # << >>) =>
           /\ res.audio_data = << >>
           /\ res.segments = << >>
           /\ \E i \in NonBlankAt(segs), u \in FallbackErrors :
                  /\ res.error = "Failed to synthesize segment for " \o segs[i].speaker
                                     \o ": " \o u
                  /\ i = failAt \/ \A j \in NonBlankAt(segs) : i <= j

FailedAtValidate ==
    /\ Done
    /\ ~parse_script(script).raised
    /\ \/ parse_script(script).segments = << >>
       \/ SumLen(parse_script(script).segments) > MaxScriptChars

\* render_audio returned at engine acquisition: no engine, or one that is not
\* available.
FailedAtAcquire ==
    /\ Done
    /\ ~parse_script(script).raised
    /\ ~FailedAtValidate
    /\ engine = NoEngine \/ ~Installed(engine, env)

\* C16: when render_audio fails at parse/validate no engine instance is
\* acquired, constructed or probed; when it fails at engine acquisition
\* load() is never called; in both cases every engine's loaded state is
\* unchanged, no file is written and the result is a failure without output
\* path.
C16_EarlyFailureTouchesNothing ==
    /\ FailedAtValidate =>
           /\ instances = EmptyMap
           /\ \A n \in DOMAIN made : made[n] = 0
           /\ engine = NoEngine
    /\ (FailedAtValidate \/ FailedAtAcquire) =>
           /\ ~load_attempted
           /\ \A n \in DOMAIN instances : ~is_loaded(instances[n])
           /\ written = << >>
           /\ outcome = "returned"
           /\ ~result.success
           /\ result.output_path = NoPath
           /\ result.error # ""

\* A valid script whose requested engine is registered and not installed.
C16_Witness ==
    /\ FailedAtAcquire
    /\ engine # NoEngine
    /\ engine \in DOMAIN instances

\* C19: load() on an engine that is loaded and unload() on an engine that is
\* not loaded (never loaded included) do not raise and change nothing of the
\* engine: resource handle, execution strategy and is_loaded() are as before.
C19_LoadUnloadIdempotent ==
    /\ (last.op = "load" /\ is_loaded(last.before)) =>
           (~last.raised /\ instances[last.name] = last.before)
    /\ (last.op = "unload" /\ ~is_loaded(last.before)) =>
           (~last.raised /\ instances[last.name] = last.before)

\* The prompt a successful native synthesize_multi was generated from.
PromptOf(res) == res.audio_data[1].frames

\* The first spoken segment of a speaker other than the first speaker, or 0.
SecondAt(nb) ==
    IF \A i \in 1..Len(nb) : nb[i].speaker = nb[1].speaker THEN 0
    ELSE CHOOSE i \in 1..Len(nb) :
             /\ nb[i].speaker # nb[1].speaker
             /\ \A j \in 1..(i - 1) : nb[j].speaker = nb[1].speaker

\* C20: native synthesize_multi tags each non-blank turn, in input order, with
\* its speaker's marker; the first distinct speaker gets S1, the second S2, and
\* a repeated speaker the marker it was first given.
C20_PromptByFirstAppearance ==
    (last.op = "synthesize_multi" /\ last.name = "dia2" /\ ~last.raised
         /\ last.result.success) =>
        LET nb == NonBlank(last.args.segments)
            prompt == PromptOf(last.result)
        IN  /\ Len(prompt) = Len(nb)
            /\ \A i \in 1..Len(nb) :
                   /\ prompt[i].text = Strip(nb[i].text)
                   /\ nb[i].speaker = nb[1].speaker => prompt[i].tag = "S1"
                   /\ (SecondAt(nb) # 0 /\ nb[i].speaker = nb[SecondAt(nb)].speaker)
                          => prompt[i].tag = "S2"

\* narrator, peer, narrator, peer synthesized as S1, S2, S1, S2.
C20_Witness ==
    /\ last.op = "synthesize_multi" /\ last.name = "dia2" /\ ~last.raised
    /\ last.result.success
    /\ Len(last.args.segments) = 4
    /\ [i \in 1..4 |-> PromptOf(last.result)[i].tag] = <<"S1", "S2", "S1", "S2">>

\* The speakers of the spoken turns nb[1..i].
SpeakersUpTo(nb, i) == {nb[j].speaker : j \in 1..i}

\* The rank of the speaker of turn i in order of first appearance.
RankOf(nb, i) ==
    LET first == CHOOSE j \in 1..i :
                     /\ nb[j].speaker = nb[i].speaker
                     /\ \A h \in 1..(j - 1) : nb[h].speaker # nb[i].speaker
    IN  Cardinality(SpeakersUpTo(nb, first))

\* The marker reached by cycling through S1, S2 in order of first appearance.
CycledMarker(rank) == "S" \o ToString(((rank - 1) % 2) + 1)

\* C21: on the two-marker engine the third and every further new speaker gets
\* its marker by cycling through S1, S2 in order of first appearance (the
\* third S1, the fourth S2, and so on).
C21_LaterSpeakersCycle ==
    (last.op = "synthesize_multi" /\ last.name = "dia2" /\ ~last.raised
         /\ last.result.success) =>
        LET nb == NonBlank(last.args.segments)
            prompt == PromptOf(last.result)
        IN  \A i \in 1..Len(nb) :
                RankOf(nb, i) >= 3 => prompt[i].tag = CycledMarker(RankOf(nb, i))

\* The markers of a prompt.
MarkersOf(prompt) == {prompt[i].tag : i \in 1..Len(prompt)}

\* C22: the prompt of native synthesize_multi holds no marker other than S1
\* and S2, however many distinct speakers the segment list has.
C22_OnlyTwoMarkers ==
    (last.op = "synthesize_multi" /\ last.name = "dia2" /\ ~last.raised
         /\ last.result.success) =>
        MarkersOf(PromptOf(last.result)) \subseteq {"S1", "S2"}

\* Four distinct speakers synthesized in one native call.
C22_Witness ==
    /\ last.op = "synthesize_multi" /\ last.name = "dia2" /\ ~last.raised
    /\ last.result.success
    /\ Cardinality({last.args.segments[i].speaker :
                        i \in 1..Len(last.args.segments)}) = 4
    /\ Len(PromptOf(last.result)) = 4
    /\ MarkersOf(PromptOf(last.result)) = {"S1", "S2"}

\* C30: after render_audio has returned from a load() that raised, the engine
\* instance reports is_loaded() false and holds no model object.
C30_FailedLoadHoldsNothing ==
    (Done /\ load_attempted /\ calls = << >> /\ ~result.success
          /\ engine # NoEngine) =>
        /\ ~is_loaded(instances[engine])
        /\ ~Holding(instances[engine])

\* ------------------------------------------------------ properties: the server
\* A step of the render tool: of render_audio or of the cleanup that follows it.
ToolRenderStep == renVars' # renVars

\* C15: a render on engine A, the render tool's cleanup included, never
\* changes the loaded state of another engine B: while a render on B is
\* between its own load() and its own release, no step of the render on A
\* changes is_loaded() of B.
C15_RenderLeavesOtherEngines ==
    [][(ToolRenderStep /\ other.pc \in {"synth", "finally"}) =>
           is_loaded(instances'[other.name]) = is_loaded(instances[other.name])]_vars

\* C17: cleanup_resources() returns success with cleaned_engines exactly the
\* instantiated engines that were loaded when it was called, and no
\* instantiated engine is loaded after it; nothing loaded gives an empty list.
C17_CleanupUnloadsAll ==
    [][(\E order \in Orders(Loaded(instances)), uf \in UnloadFaults : ToolCleanup(order, uf)) =>
           /\ ~tool'.raised
           /\ {tool'.cleaned[i] : i \in 1..Len(tool'.cleaned)} = Loaded(instances)
           /\ Len(tool'.cleaned) = Cardinality(Loaded(instances))
           /\ Loaded(instances') = {}]_vars

\* C18: resource_status() changes no state: the instance cache and every
\* engine's loaded state are after the call what they were before it.
C18_StatusReadsOnly ==
    [][ToolStatus =>
           /\ DOMAIN instances' = DOMAIN instances
           /\ \A n \in DOMAIN instances : is_loaded(instances'[n]) = is_loaded(instances[n])]_vars

====
